---- MODULE Spec2Model ----
(***************************************************************************)
(* A model of the consistent-hash ring of consistent.go: the Consistent    *)
(* struct, its mutations (Add, Remove, Set, SetWithReplicas), its lookups  *)
(* (Get, GetTwo, GetN) and the helpers they call.                          *)
(*                                                                         *)
(* Strings are sequences of byte values ("a" is <<97>>).  A uint32 value v *)
(* is held as the integer v - 2^31, so that the unsigned order of the      *)
(* program is the integer order of the model and every value fits the      *)
(* model checker's 32-bit integers; hashes are computed on two 16-bit      *)
(* halves <<hi, lo>> and converted with U32.                               *)
(***************************************************************************)
EXTENDS Integers, Sequences, FiniteSets, TLC

\* ------------------------------------------------------------------ bytes

\* uint32 value hi * 2^16 + lo, biased by -2^31.
U32(hi, lo) == (hi - 32768) * 65536 + lo

RECURSIVE Xor(_, _)
\* Bitwise exclusive or of two naturals.
Xor(a, b) ==
    IF a = 0 THEN b
    ELSE IF b = 0 THEN a
    ELSE 2 * Xor(a \div 2, b \div 2) + (((a % 2) + (b % 2)) % 2)

RECURSIVE Itoa(_)
\* strconv.Itoa for idx >= 0: the decimal digits, most significant first.
Itoa(idx) ==
    IF idx < 10 THEN <<48 + idx>>
    ELSE Itoa(idx \div 10) \o <<48 + (idx % 10)>>

\* eltKey: the replica index in decimal, then the element.
eltKey(elt, idx) == Itoa(idx) \o elt

\* ------------------------------------------------------------------ hashing

RECURSIVE crcShift(_, _)
\* k rounds of the reflected CRC-32 shift register on h = <<hi, lo>>.
crcShift(h, k) ==
    IF k = 0 THEN h
    ELSE LET bit == h[2] % 2
             hi  == h[1] \div 2
             lo  == (h[2] \div 2) + ((h[1] % 2) * 32768)
         IN  crcShift(IF bit = 1 THEN <<Xor(hi, 60856), Xor(lo, 33568)>>
                                 ELSE <<hi, lo>>, k - 1)

RECURSIVE crcUpdate(_, _)
crcUpdate(h, bytes) ==
    IF bytes = <<>> THEN h
    ELSE crcUpdate(crcShift(<<h[1], Xor(h[2], Head(bytes))>>, 8), Tail(bytes))

\* crc32.ChecksumIEEE (polynomial 0xEDB88320 = <<60856, 33568>>); the
\* scratch copy of short keys does not change the bytes that are hashed.
hashKeyCRC32(key) ==
    LET h == crcUpdate(<<65535, 65535>>, key)
    IN  U32(65535 - h[1], 65535 - h[2])

RECURSIVE fnvUpdate(_, _)
\* FNV-1a: xor the byte in, then multiply by the prime 16777619
\* (2^24 + 403) modulo 2^32.
fnvUpdate(h, bytes) ==
    IF bytes = <<>> THEN h
    ELSE LET lo == Xor(h[2], Head(bytes))
             pl == lo * 403
             ph == (h[1] * 403) + (pl \div 65536) + ((lo % 256) * 256)
         IN  fnvUpdate(<<ph % 65536, pl % 65536>>, Tail(bytes))

\* fnv.New32a, offset basis 2166136261 = <<33052, 40389>>.
hashKeyFnv(key) ==
    LET h == fnvUpdate(<<33052, 40389>>, key)
    IN  U32(h[1], h[2])

RECURSIVE SumBytes(_)
SumBytes(bytes) ==
    IF bytes = <<>> THEN 0 ELSE Head(bytes) + SumBytes(Tail(bytes))

\* A caller-supplied Hasher: "sum" adds the bytes of the key.
HashFunc(hasher, key) == U32(0, SumBytes(key) % 65536)

\* ------------------------------------------------------------------ bounds

\* Largest replica count passed to Add and in a SetElt.
MaxReplicas == 2
\* Longest list passed to Set and SetWithReplicas.
MaxSetLen == 2
\* Largest n passed to GetN.
MaxN == 3

\* ------------------------------------------------------------------ inputs

\* Member names "a", "b", "c".
Elts == {<<97>>, <<98>>, <<99>>}

\* Lookup keys "0b" (also the eltKey of replica 0 of "b"), "k" and "zz".
Names == {<<48, 98>>, <<107>>, <<122, 122>>}

\* Config values given to New: DefaultNumberOfReplicas, UseFnv, CustomHasher.
Configs ==
    { [DefaultNumberOfReplicas |-> 1, UseFnv |-> FALSE, CustomHasher |-> "nil"],
      [DefaultNumberOfReplicas |-> 2, UseFnv |-> TRUE,  CustomHasher |-> "nil"],
      [DefaultNumberOfReplicas |-> 2, UseFnv |-> FALSE, CustomHasher |-> "sum"] }

\* Sequences over S of length at most n.
SeqUpTo(S, n) == UNION { [1..k -> S] : k \in 0..n }

\* The elements of a sequence.
Range(s) == { s[i] : i \in DOMAIN s }

\* The orders in which a range statement may visit the keys of a map.
Orders(S) == { o \in [1..Cardinality(S) -> S] : Range(o) = S }

\* ------------------------------------------------------------------ state

VARIABLES
    circle,                   \* map[uint32]string: position -> element
    members,                  \* map[string]bool, as the set of its keys
    membersReplicas,          \* map[string]int
    sortedHashes,             \* uints: the keys of circle, sorted
    sortedCap,                \* cap(sortedHashes)
    defaultNumberOfReplicas,
    count,                    \* int64
    customHasher,             \* "nil" or the name of a Hasher
    useFnv,
    op,                       \* the call made last, its arguments and results
    rwWriter,                 \* RWMutex: the thread holding the write lock
    rwReaders,                \* RWMutex: the threads holding the read lock
    thread,                   \* where each concurrent caller is in its call
    committed                 \* the ring when the write lock was last free

ring == <<circle, members, membersReplicas, sortedHashes, sortedCap, count>>
config == <<defaultNumberOfReplicas, customHasher, useFnv>>
conc == <<rwWriter, rwReaders, thread, committed>>
vars == <<ring, config, op, conc>>

\* The Consistent object as one value.
Self ==
    [ circle |-> circle, members |-> members,
      membersReplicas |-> membersReplicas, sortedHashes |-> sortedHashes,
      sortedCap |-> sortedCap,
      defaultNumberOfReplicas |-> defaultNumberOfReplicas, count |-> count,
      customHasher |-> customHasher, useFnv |-> useFnv ]

\* The object c written back to the fields.
Store(c) ==
    /\ circle' = c.circle
    /\ members' = c.members
    /\ membersReplicas' = c.membersReplicas
    /\ sortedHashes' = c.sortedHashes
    /\ sortedCap' = c.sortedCap
    /\ count' = c.count
    /\ UNCHANGED config

EmptyMap == [k \in {} |-> k]

\* m[k] = v of a Go map.
MapPut(m, k, v) == [x \in DOMAIN m \cup {k} |-> IF x = k THEN v ELSE m[x]]

\* delete(m, k) of a Go map.
MapDelete(m, k) == [x \in DOMAIN m \ {k} |-> m[x]]

\* m[k] of a map[uint32]string: the empty string for a missing key.
MapGet(m, k) == IF k \in DOMAIN m THEN m[k] ELSE <<>>

\* s[i] with the program's indices, which start at 0.
At(s, i) == s[i + 1]

ErrEmptyCircle == "empty circle"

\* The run-time panic of an index expression out of range.
PanicIndex == "panic: index out of range"

New(conf) ==
    [ circle |-> EmptyMap, members |-> {}, membersReplicas |-> EmptyMap,
      sortedHashes |-> <<>>, sortedCap |-> 0,
      defaultNumberOfReplicas |->
          IF conf.DefaultNumberOfReplicas = 0 THEN 43
          ELSE conf.DefaultNumberOfReplicas,
      count |-> 0,
      customHasher |-> conf.CustomHasher, useFnv |-> conf.UseFnv ]

\* ------------------------------------------------------------------ helpers

\* hashKey for the hasher an object is configured with.
hashKeyOf(hasher, fnvFlag, key) ==
    IF hasher # "nil" THEN HashFunc(hasher, key)
    ELSE IF fnvFlag THEN hashKeyFnv(key)
    ELSE hashKeyCRC32(key)

\* Every string the model hashes: the replica keys of the elements and the
\* lookup keys.
HashedKeys ==
    { eltKey(elt, i) : elt \in Elts, i \in 0..(MaxReplicas + 1) } \cup Names

\* hashKeyOf tabulated once over HashedKeys, so that a hash is not
\* recomputed bit by bit in every step.
HashTable ==
    [h \in {"nil", "sum"}, f \in BOOLEAN, key \in HashedKeys |->
        hashKeyOf(h, f, key)]

hashKey(c, key) ==
    IF key \in HashedKeys THEN HashTable[c.customHasher, c.useFnv, key]
    ELSE hashKeyOf(c.customHasher, c.useFnv, key)

\* uints.Less on two values.
Less(a, b) == a < b

RECURSIVE RangeKeys(_)
\* The keys of a map in the order one range statement visits them.
RangeKeys(S) ==
    IF S = {} THEN <<>>
    ELSE LET k == CHOOSE x \in S : TRUE IN <<k>> \o RangeKeys(S \ {k})

\* The capacity after one append to a slice of length len and capacity cap:
\* a full slice is regrown to twice its capacity (to 2 from 0).
appendCap(cap, len) ==
    IF len < cap THEN cap ELSE IF cap = 0 THEN 2 ELSE 2 * cap

RECURSIVE appendAllCap(_, _, _)
\* The capacity after appending n values, one at a time, from length len.
appendAllCap(cap, len, n) ==
    IF n = 0 THEN cap ELSE appendAllCap(appendCap(cap, len), len + 1, n - 1)

\* updateSortedHashes with hashes := c.sortedHashes in place of
\* c.sortedHashes[:0]: the keys are appended to the previous index.
updateSortedHashesNoTruncate(c) ==
    LET keys == DOMAIN c.circle
        drop == c.sortedCap \div (c.defaultNumberOfReplicas * 4)
                    > Cardinality(keys)
        old  == IF drop THEN <<>> ELSE c.sortedHashes
        cap0 == IF drop THEN 0 ELSE c.sortedCap
    IN  [c EXCEPT !.sortedHashes = SortSeq(old \o RangeKeys(keys), Less),
                  !.sortedCap = appendAllCap(cap0, Len(old),
                                             Cardinality(keys))]

updateSortedHashes(c) ==
    LET keys == DOMAIN c.circle
        drop == c.sortedCap \div (c.defaultNumberOfReplicas * 4)
                    > Cardinality(keys)
        cap0 == IF drop THEN 0 ELSE c.sortedCap
    IN  [c EXCEPT !.sortedHashes = SortSeq(RangeKeys(keys), Less),
                  !.sortedCap = appendAllCap(cap0, 0, Cardinality(keys))]

\* ------------------------------------------------------------------ mutations
\* A mutation is the sequence of writes its code performs while it holds
\* the write lock.  A call that runs alone performs them all at once (Run);
\* concurrent callers see them one at a time.

Step(k, elt, i) == [k |-> k, elt |-> elt, i |-> i]

\* One write of add or remove.
ApplyStep(c, s) ==
    CASE s.k = "put" ->        \* c.circle[c.hashKey(c.eltKey(elt, i))] = elt
           [c EXCEPT !.circle =
               MapPut(c.circle, hashKey(c, eltKey(s.elt, s.i)), s.elt)]
      [] s.k = "delete" ->     \* delete(c.circle, c.hashKey(c.eltKey(elt, i)))
           [c EXCEPT !.circle =
               MapDelete(c.circle, hashKey(c, eltKey(s.elt, s.i)))]
      [] s.k = "member" ->     \* c.members[elt] = true
           [c EXCEPT !.members = c.members \cup {s.elt}]
      [] s.k = "replicas" ->   \* c.membersReplicas[elt] = numberOfReplicas
           [c EXCEPT !.membersReplicas =
               MapPut(c.membersReplicas, s.elt, s.i)]
      [] s.k = "unmember" ->   \* delete(c.members, elt)
           [c EXCEPT !.members = c.members \ {s.elt}]
      [] s.k = "unreplicas" -> \* delete(c.membersReplicas, elt)
           [c EXCEPT !.membersReplicas = MapDelete(c.membersReplicas, s.elt)]
      [] s.k = "sort" ->       \* c.updateSortedHashes()
           updateSortedHashes(c)
      [] s.k = "count" ->      \* c.count++, c.count--
           [c EXCEPT !.count = c.count + s.i]

RECURSIVE Run(_, _)
\* The object after the writes of steps, in order.
Run(c, steps) ==
    IF steps = <<>> THEN c ELSE Run(ApplyStep(c, Head(steps)), Tail(steps))

\* add without c.count++.
addStepsNoCount(elt, numberOfReplicas) ==
    [x \in 1..numberOfReplicas |-> Step("put", elt, x - 1)]
        \o << Step("member", elt, 0),
              Step("replicas", elt, numberOfReplicas),
              Step("sort", elt, 0) >>

\* The writes of add(elt, numberOfReplicas).
addSteps(elt, numberOfReplicas) ==
    [x \in 1..numberOfReplicas |-> Step("put", elt, x - 1)]
        \o << Step("member", elt, 0),
              Step("replicas", elt, numberOfReplicas),
              Step("sort", elt, 0),
              Step("count", elt, 1) >>

add(c, elt, numberOfReplicas) == Run(c, addSteps(elt, numberOfReplicas))

\* Add without the test for an existing member: add runs on every call.
AddStepsAlways(c, elt, numbersOfReplicas) ==
    addSteps(elt, IF Len(numbersOfReplicas) > 0
                  THEN numbersOfReplicas[1]
                  ELSE c.defaultNumberOfReplicas)

\* The writes of Add(elt, numbersOfReplicas...): none for a member.
AddSteps(c, elt, numbersOfReplicas) ==
    IF elt \in c.members THEN <<>>
    ELSE addSteps(elt, IF Len(numbersOfReplicas) > 0
                       THEN numbersOfReplicas[1]
                       ELSE c.defaultNumberOfReplicas)

\* Add: the object after the call.
Add(c, elt, numbersOfReplicas) == Run(c, AddSteps(c, elt, numbersOfReplicas))

\* remove with its loop started at replica 1: replica 0 is left on the
\* circle.
removeStepsFromOne(elt, numberOfReplicas) ==
    [x \in 1..(numberOfReplicas - 1) |-> Step("delete", elt, x)]
        \o << Step("unmember", elt, 0),
              Step("unreplicas", elt, 0),
              Step("sort", elt, 0),
              Step("count", elt, -1) >>

\* remove without delete(c.membersReplicas, elt): the replica count of a
\* removed element stays.
removeStepsKeepReplicas(elt, numberOfReplicas) ==
    [x \in 1..numberOfReplicas |-> Step("delete", elt, x - 1)]
        \o << Step("unmember", elt, 0),
              Step("sort", elt, 0),
              Step("count", elt, -1) >>

\* The writes of remove(elt, numberOfReplicas).
removeSteps(elt, numberOfReplicas) ==
    [x \in 1..numberOfReplicas |-> Step("delete", elt, x - 1)]
        \o << Step("unmember", elt, 0),
              Step("unreplicas", elt, 0),
              Step("sort", elt, 0),
              Step("count", elt, -1) >>

remove(c, elt, numberOfReplicas) == Run(c, removeSteps(elt, numberOfReplicas))

\* The value Remove(elt) returns.
RemoveResult(c, elt) == elt \in c.members /\ elt \in DOMAIN c.membersReplicas

\* The writes of Remove(elt): none when it returns false.
RemoveSteps(c, elt) ==
    IF elt \notin c.members THEN <<>>
    ELSE IF elt \notin DOMAIN c.membersReplicas THEN <<>>
    ELSE removeSteps(elt, c.membersReplicas[elt])

\* Remove: the object after the call and the value returned.
Remove(c, elt) ==
    [c |-> Run(c, RemoveSteps(c, elt)), ret |-> RemoveResult(c, elt)]

RECURSIVE setRemoveSteps(_, _, _)
\* for k := range c.members { if k is not among names { remove(k, ...) } }:
\* the writes, when the range visits the members that are not among names
\* in the given order (a visit to one that is among them writes nothing).
setRemoveSteps(c, order, names) ==
    IF order = <<>> THEN <<>>
    ELSE LET k == Head(order)
             s == IF k \notin names /\ k \in DOMAIN c.membersReplicas
                  THEN removeSteps(k, c.membersReplicas[k]) ELSE <<>>
         IN  s \o setRemoveSteps(Run(c, s), Tail(order), names)

RECURSIVE setAddSteps(_, _)
\* for _, v := range elts { if v is a member { continue }; add(v, default) }
setAddSteps(c, elts) ==
    IF elts = <<>> THEN <<>>
    ELSE LET v == Head(elts)
             s == IF v \in c.members THEN <<>>
                  ELSE addSteps(v, c.defaultNumberOfReplicas)
         IN  s \o setAddSteps(Run(c, s), Tail(elts))

\* The writes of Set(elts).
SetSteps(c, elts, order) ==
    LET r == setRemoveSteps(c, order, Range(elts))
    IN  r \o setAddSteps(Run(c, r), elts)

\* Set: the object after the call.
Set(c, elts, order) == Run(c, SetSteps(c, elts, order))

RECURSIVE setWithReplicasAddStepsNoDefault(_, _)
\* The add loop of SetWithReplicas without the replacement of a zero
\* NumberOfReplicas by the default.
setWithReplicasAddStepsNoDefault(c, elts) ==
    IF elts = <<>> THEN <<>>
    ELSE LET v == Head(elts)
             s == IF v.Elt \in c.members THEN <<>>
                  ELSE addSteps(v.Elt, v.NumberOfReplicas)
         IN  s \o setWithReplicasAddStepsNoDefault(Run(c, s), Tail(elts))

RECURSIVE setWithReplicasAddSteps(_, _)
\* for _, v := range elts { if v.Elt is a member { continue };
\*   add(v.Elt, v.NumberOfReplicas, or the default when that is 0) }
setWithReplicasAddSteps(c, elts) ==
    IF elts = <<>> THEN <<>>
    ELSE LET v == Head(elts)
             s == IF v.Elt \in c.members THEN <<>>
                  ELSE addSteps(v.Elt,
                                IF v.NumberOfReplicas = 0
                                THEN c.defaultNumberOfReplicas
                                ELSE v.NumberOfReplicas)
         IN  s \o setWithReplicasAddSteps(Run(c, s), Tail(elts))

\* The names of a list of SetElt.
EltsOf(elts) == { elts[x].Elt : x \in DOMAIN elts }

\* The writes of SetWithReplicas(elts).
SetWithReplicasSteps(c, elts, order) ==
    LET r == setRemoveSteps(c, order, EltsOf(elts))
    IN  r \o setWithReplicasAddSteps(Run(c, r), elts)

\* SetWithReplicas: the object after the call.
SetWithReplicas(c, elts, order) ==
    Run(c, SetWithReplicasSteps(c, elts, order))

\* The SetElt values given to SetWithReplicas.
SetElts == [Elt : Elts, NumberOfReplicas : {0, MaxReplicas}]

\* ------------------------------------------------------------------ lookups

RECURSIVE sortSearchGE(_, _, _, _)
\* sort.Search with the test >= key in place of > key: a stored position
\* equal to the key would serve it.
sortSearchGE(c, key, i, j) ==
    IF i < j
    THEN LET h == (i + j) \div 2
         IN  IF ~(At(c.sortedHashes, h) >= key)
             THEN sortSearchGE(c, key, h + 1, j)
             ELSE sortSearchGE(c, key, i, h)
    ELSE i

RECURSIVE sortSearch(_, _, _, _)
\* sort.Search: the smallest index in [i, j) whose value is greater than
\* key, or j when there is none, by bisection.
sortSearch(c, key, i, j) ==
    IF i < j
    THEN LET h == (i + j) \div 2
         IN  IF ~(At(c.sortedHashes, h) > key)
             THEN sortSearch(c, key, h + 1, j)
             ELSE sortSearch(c, key, i, h)
    ELSE i

search(c, key) ==
    LET i == sortSearch(c, key, 0, Len(c.sortedHashes))
    IN  IF i >= Len(c.sortedHashes) THEN 0 ELSE i

\* i < len(c.sortedHashes): the index expression c.sortedHashes[i] does not
\* panic.
InRange(c, i) == i < Len(c.sortedHashes)

\* c.circle[c.sortedHashes[i]]
circleAt(c, i) == MapGet(c.circle, At(c.sortedHashes, i))

\* What a lookup does: the elements it returns (none when it does not
\* return), the error, hung when it does not return, and the number of
\* iterations of its loop.
Result(ret, err, hung, iters) ==
    [ret |-> ret, err |-> err, hung |-> hung, iters |-> iters]

\* return c.circle[c.sortedHashes[i]], nil of Get
getFound(c, i) ==
    IF ~InRange(c, i) THEN Result(<< <<>> >>, PanicIndex, FALSE, 0)
    ELSE Result(<<circleAt(c, i)>>, "nil", FALSE, 0)

Get(c, name) ==
    IF Cardinality(DOMAIN c.circle) = 0
    THEN Result(<< <<>> >>, ErrEmptyCircle, FALSE, 0)
    ELSE getFound(c, search(c, hashKey(c, name)))

RECURSIVE getTwoLoop(_, _, _, _, _, _)
\* for i = start + 1; i != start; i++ { ... }; return a, b, nil of GetTwo,
\* from the loop test with index i.  The index is the whole state of the
\* loop, so a test that meets an index it has met before repeats forever:
\* hung.  seen holds the indices the body has run with.
getTwoLoop(c, a, start, i, b, seen) ==
    IF i = start
    THEN Result(<<a, b>>, "nil", FALSE, Cardinality(seen))
    ELSE IF i \in seen
    THEN Result(<<>>, "nil", TRUE, Cardinality(seen))
    ELSE LET j  == IF i >= Len(c.sortedHashes) THEN 0 ELSE i
             b2 == circleAt(c, j)
         IN  IF b2 # a
             THEN Result(<<a, b2>>, "nil", FALSE, Cardinality(seen) + 1)
             ELSE getTwoLoop(c, a, start, j + 1, b2, seen \cup {i})

\* GetTwo from the statement after a := c.circle[c.sortedHashes[i]].
getTwoFrom(c, start, a) ==
    IF c.count = 1 THEN Result(<<a, <<>>>>, "nil", FALSE, 0)
    ELSE getTwoLoop(c, a, start, start + 1, <<>>, {})

\* a := c.circle[c.sortedHashes[i]] of GetTwo and what follows.
getTwoFound(c, i) ==
    IF ~InRange(c, i) THEN Result(<< <<>>, <<>> >>, PanicIndex, FALSE, 0)
    ELSE getTwoFrom(c, i, circleAt(c, i))

GetTwo(c, name) ==
    IF Cardinality(DOMAIN c.circle) = 0
    THEN Result(<< <<>>, <<>> >>, ErrEmptyCircle, FALSE, 0)
    ELSE getTwoFound(c, search(c, hashKey(c, name)))

sliceContainsMember(set, member) == \E x \in DOMAIN set : set[x] = member

RECURSIVE getNLoop(_, _, _, _, _, _)
\* for i = start + 1; i != start; i++ { ... }; return res, nil of GetN,
\* from the loop test with index i.  The index and len(res) are the whole
\* state of the loop (res only grows), so a test that meets a pair it has
\* met before repeats forever: hung.
getNLoop(c, n, start, i, res, seen) ==
    IF i = start
    THEN Result(res, "nil", FALSE, Cardinality(seen))
    ELSE IF <<i, Len(res)>> \in seen
    THEN Result(<<>>, "nil", TRUE, Cardinality(seen))
    ELSE LET j    == IF i >= Len(c.sortedHashes) THEN 0 ELSE i
             elem == circleAt(c, j)
             res2 == IF ~sliceContainsMember(res, elem)
                     THEN Append(res, elem) ELSE res
         IN  IF Len(res2) = n
             THEN Result(res2, "nil", FALSE, Cardinality(seen) + 1)
             ELSE getNLoop(c, n, start, j + 1, res2,
                           seen \cup {<<i, Len(res)>>})

\* GetN from the statement after res = append(res, elem).
getNFrom(c, n, start, res) ==
    IF Len(res) = n THEN Result(res, "nil", FALSE, 0)
    ELSE getNLoop(c, n, start, start + 1, res, {})

\* elem = c.circle[c.sortedHashes[i]] of GetN and what follows.
getNFound(c, n, i) ==
    IF ~InRange(c, i) THEN Result(<<>>, PanicIndex, FALSE, 0)
    ELSE getNFrom(c, n, i, <<circleAt(c, i)>>)

\* GetN for n >= 0.
GetN(c, name, n) ==
    IF Cardinality(DOMAIN c.circle) = 0
    THEN Result(<<>>, ErrEmptyCircle, FALSE, 0)
    ELSE getNFound(c, IF c.count < n THEN c.count ELSE n,
                   search(c, hashKey(c, name)))

\* Members: the keys of c.members, appended in the order the range visits
\* them.
Members(c, order) == [x \in 1..Cardinality(c.members) |-> order[x]]

\* MemberReplicas: a copy of c.membersReplicas.
MemberReplicas(c) == [k \in DOMAIN c.membersReplicas |-> c.membersReplicas[k]]

\* A call of Get, GetTwo or GetN as one value, and what it does on object c.
LookupCall(name, key, n) == [name |-> name, key |-> key, n |-> n]

Lookup(c, call) ==
    CASE call.name = "Get" -> Get(c, call.key)
      [] call.name = "GetTwo" -> GetTwo(c, call.key)
      [] call.name = "GetN" -> GetN(c, call.key, call.n)

\* ------------------------------------------------------------------ one caller

\* No call is in progress: the caller has taken the last result.
NoCall ==
    [name |-> "none", elt |-> <<>>, n |-> 0, elts |-> <<>>, ret |-> <<>>,
     ok |-> TRUE, err |-> "nil", hung |-> FALSE, iters |-> 0]

Idle == op = NoCall

\* Concurrent callers: goroutines that mutate and goroutines that look up.
Writers == {"w1", "w2"}
Readers == {"r1", "r2"}

\* A caller outside any call.
IdleThread == [pc |-> "idle", call |-> <<>>, steps |-> <<>>, res |-> <<>>]

InitObject(c) ==
    /\ circle = c.circle
    /\ members = c.members
    /\ membersReplicas = c.membersReplicas
    /\ sortedHashes = c.sortedHashes
    /\ sortedCap = c.sortedCap
    /\ defaultNumberOfReplicas = c.defaultNumberOfReplicas
    /\ count = c.count
    /\ customHasher = c.customHasher
    /\ useFnv = c.useFnv

Init ==
    /\ \E conf \in Configs :
           /\ InitObject(New(conf))
           /\ committed = New(conf)
    /\ op = NoCall
    /\ rwWriter = "none"
    /\ rwReaders = {}
    /\ thread = [t \in Writers \cup Readers |-> IdleThread]

\* The replica counts given to Add: an int, negative ones included.
ReplicaArgs == (0 - 1)..MaxReplicas

DoAdd ==
    /\ Idle
    /\ \E elt \in Elts, nums \in SeqUpTo(ReplicaArgs, 1) :
           /\ Store(Add(Self, elt, nums))
           /\ op' = [NoCall EXCEPT !.name = "Add", !.elt = elt, !.elts = nums]
    /\ UNCHANGED conc

DoRemove ==
    /\ Idle
    /\ \E elt \in Elts :
           LET r == Remove(Self, elt)
           IN  /\ Store(r.c)
               /\ op' = [NoCall EXCEPT !.name = "Remove", !.elt = elt,
                                       !.ok = r.ret]
    /\ UNCHANGED conc

DoSet ==
    /\ Idle
    /\ \E elts \in SeqUpTo(Elts, MaxSetLen) :
         \E order \in Orders(members \ Range(elts)) :
           /\ Store(Set(Self, elts, order))
           /\ op' = [NoCall EXCEPT !.name = "Set", !.elts = elts]
    /\ UNCHANGED conc

DoSetWithReplicas ==
    /\ Idle
    /\ \E elts \in SeqUpTo(SetElts, MaxSetLen) :
         \E order \in Orders(members \ EltsOf(elts)) :
           /\ Store(SetWithReplicas(Self, elts, order))
           /\ op' = [NoCall EXCEPT !.name = "SetWithReplicas", !.elts = elts]
    /\ UNCHANGED conc

\* The record of a lookup call and what it did.
Called(call, r) ==
    [NoCall EXCEPT !.name = call.name, !.elt = call.key, !.n = call.n,
                   !.ret = r.ret, !.err = r.err, !.hung = r.hung,
                   !.iters = r.iters]

\* Get, GetTwo or GetN.
DoLookup(call) ==
    /\ op' = Called(call, Lookup(Self, call))
    /\ UNCHANGED <<ring, config, conc>>

DoGet ==
    /\ Idle
    /\ \E name \in Names : DoLookup(LookupCall("Get", name, 0))

DoGetTwo ==
    /\ Idle
    /\ \E name \in Names : DoLookup(LookupCall("GetTwo", name, 0))

DoGetN ==
    /\ Idle
    /\ \E name \in Names, n \in 0..MaxN : DoLookup(LookupCall("GetN", name, n))

\* The caller takes the result of a call that has returned; a call that hangs
\* or panics never returns.
Return ==
    /\ ~Idle
    /\ ~op.hung
    /\ op.err # PanicIndex
    /\ op' = NoCall
    /\ UNCHANGED <<ring, config, conc>>

Next ==
    \/ DoAdd
    \/ DoRemove
    \/ DoSet
    \/ DoSetWithReplicas
    \/ DoGet
    \/ DoGetTwo
    \/ DoGetN
    \/ Return

Spec == Init /\ [][Next]_vars

\* ------------------------------------------------------------------ concurrent callers
\* Writers and readers call the same object from their own goroutines.  A
\* mutation takes the write lock, performs its writes one at a time and
\* releases the lock on return (defer c.Unlock()); a lookup takes the read
\* lock, reads and releases it on return (defer c.RUnlock()).

\* The member names "a", "b" and the lookup key "k" of the concurrent callers.
ConcElts == {<<97>>, <<98>>}
ConcNames == {<<107>>}

\* The calls of the concurrent readers.
ConcCalls ==
    { LookupCall(call, name, IF call = "GetN" THEN MaxN - 1 ELSE 0) :
          call \in {"Get", "GetTwo", "GetN"}, name \in ConcNames }
    \cup { LookupCall(call, <<>>, 0) : call \in {"Members", "MemberReplicas"} }

\* A write lock that never waits: a mutation that takes no lock.
LockNeverWaits == TRUE

\* c.Lock() returns: no goroutine holds the lock in either mode.
CanLock == rwWriter = "none" /\ rwReaders = {}

\* A read lock that never waits: a lookup that takes no lock.
RLockNeverWaits == TRUE

\* c.RLock() returns: no goroutine holds the write lock.
CanRLock == rwWriter = "none"

\* Writer t has taken the write lock and is about to perform steps.
Locked(t, steps) ==
    /\ thread[t].pc = "idle"
    /\ CanLock
    /\ rwWriter' = t
    /\ thread' = [thread EXCEPT ![t] = [IdleThread EXCEPT !.pc = "write",
                                                          !.steps = steps]]
    /\ UNCHANGED <<ring, config, op, rwReaders, committed>>

ConcAdd(t) ==
    \E elt \in ConcElts, nums \in SeqUpTo(0..MaxReplicas, 1) :
        Locked(t, AddSteps(Self, elt, nums))

ConcRemove(t) ==
    \E elt \in ConcElts : Locked(t, RemoveSteps(Self, elt))

ConcSet(t) ==
    \E elts \in SeqUpTo(ConcElts, MaxSetLen) :
      \E order \in Orders(members \ Range(elts)) :
        Locked(t, SetSteps(Self, elts, order))

ConcSetWithReplicas(t) ==
    \E elts \in SeqUpTo([Elt : ConcElts, NumberOfReplicas : {0, MaxReplicas}],
                        MaxSetLen) :
      \E order \in Orders(members \ EltsOf(elts)) :
        Locked(t, SetWithReplicasSteps(Self, elts, order))

\* The next write of the mutation writer t is in.
ConcWrite(t) ==
    /\ thread[t].pc = "write"
    /\ thread[t].steps # <<>>
    /\ Store(ApplyStep(Self, Head(thread[t].steps)))
    /\ thread' = [thread EXCEPT ![t].steps = Tail(thread[t].steps)]
    /\ UNCHANGED <<op, rwWriter, rwReaders, committed>>

\* The mutation returns: c.Unlock().
ConcUnlock(t) ==
    /\ thread[t].pc = "write"
    /\ thread[t].steps = <<>>
    /\ rwWriter' = "none"
    /\ committed' = Self
    /\ thread' = [thread EXCEPT ![t] = IdleThread]
    /\ UNCHANGED <<ring, config, op, rwReaders>>

\* Reader t enters Get, GetTwo, GetN, Members or MemberReplicas: c.RLock().
ConcRLock(t) ==
    /\ thread[t].pc = "idle"
    /\ CanRLock
    /\ \E call \in ConcCalls :
           thread' = [thread EXCEPT ![t] =
               [IdleThread EXCEPT !.pc = "read", !.call = call]]
    /\ rwReaders' = rwReaders \cup {t}
    /\ UNCHANGED <<ring, config, op, rwWriter, committed>>

\* The lookup of reader t reads the object and computes its result; a
\* lookup that hangs stays here, holding the read lock.
ConcRead(t) ==
    /\ thread[t].pc = "read"
    /\ thread[t].call.name \in {"Get", "GetTwo", "GetN"}
    /\ ~Lookup(Self, thread[t].call).hung
    /\ thread' = [thread EXCEPT ![t].pc = "done",
                                ![t].res = Lookup(Self, thread[t].call)]
    /\ UNCHANGED <<ring, config, op, rwWriter, rwReaders, committed>>

\* Members of reader t reads the member set.
ConcMembers(t) ==
    /\ thread[t].pc = "read"
    /\ thread[t].call.name = "Members"
    /\ \E order \in Orders(members) :
           thread' = [thread EXCEPT ![t].pc = "done",
               ![t].res = Result(Members(Self, order), "nil", FALSE, 0)]
    /\ UNCHANGED <<ring, config, op, rwWriter, rwReaders, committed>>

\* MemberReplicas of reader t reads the replica counts.
ConcMemberReplicas(t) ==
    /\ thread[t].pc = "read"
    /\ thread[t].call.name = "MemberReplicas"
    /\ thread' = [thread EXCEPT ![t].pc = "done",
           ![t].res = Result(MemberReplicas(Self), "nil", FALSE, 0)]
    /\ UNCHANGED <<ring, config, op, rwWriter, rwReaders, committed>>

\* The call of reader t returns: c.RUnlock().
ConcRUnlock(t) ==
    /\ thread[t].pc = "done"
    /\ rwReaders' = rwReaders \ {t}
    /\ thread' = [thread EXCEPT ![t] = IdleThread]
    /\ UNCHANGED <<ring, config, op, rwWriter, committed>>

NextConc ==
    \/ \E t \in Writers : ConcAdd(t)
    \/ \E t \in Writers : ConcRemove(t)
    \/ \E t \in Writers : ConcSet(t)
    \/ \E t \in Writers : ConcSetWithReplicas(t)
    \/ \E t \in Writers : ConcWrite(t)
    \/ \E t \in Writers : ConcUnlock(t)
    \/ \E t \in Readers : ConcRLock(t)
    \/ \E t \in Readers : ConcRead(t)
    \/ \E t \in Readers : ConcMembers(t)
    \/ \E t \in Readers : ConcMemberReplicas(t)
    \/ \E t \in Readers : ConcRUnlock(t)

SpecConc == Init /\ [][NextConc]_vars

\* ------------------------------------------------------------------ properties

\* The object after the step.
SelfNext ==
    [ circle |-> circle', members |-> members',
      membersReplicas |-> membersReplicas', sortedHashes |-> sortedHashes',
      sortedCap |-> sortedCap',
      defaultNumberOfReplicas |-> defaultNumberOfReplicas', count |-> count',
      customHasher |-> customHasher', useFnv |-> useFnv' ]

Lookups == {"Get", "GetTwo", "GetN"}

\* The least element of a non-empty set of integers.
Least(S) == CHOOSE x \in S : \A y \in S : x <= y

\* The positions circle maps to element m.
PositionsOf(circ, m) == { p \in DOMAIN circ : circ[p] = m }

\* The stored position that serves hash h: the least one greater than h,
\* and the least one of all when none is greater.
Successor(h) ==
    LET greater == { p \in DOMAIN circle : p > h }
    IN  IF greater # {} THEN Least(greater) ELSE Least(DOMAIN circle)

\* The stored positions in the order a walk from position p meets them:
\* p, the greater ones ascending, then the smaller ones ascending.
RECURSIVE Ascending(_)
Ascending(S) ==
    IF S = {} THEN <<>>
    ELSE LET m == Least(S) IN <<m>> \o Ascending(S \ {m})

WalkFrom(p) ==
    Ascending({ q \in DOMAIN circle : q >= p })
        \o Ascending({ q \in DOMAIN circle : q < p })

\* The owners of a sequence of positions, each kept where it is first met.
RECURSIVE FirstMet(_, _)
FirstMet(ps, met) ==
    IF ps = <<>> THEN <<>>
    ELSE LET m == circle[Head(ps)]
         IN  IF m \in met THEN FirstMet(Tail(ps), met)
             ELSE <<m>> \o FirstMet(Tail(ps), met \cup {m})

\* The distinct owners in the order a walk from the position serving key
\* name meets them.
OwnersFrom(name) == FirstMet(WalkFrom(Successor(hashKey(Self, name))), {})

Smaller(a, b) == IF a < b THEN a ELSE b

\* C1: on a ring of three members with equal replica counts, removing one
\* of them leaves the Get result of every key unchanged unless that result
\* was the removed member.
C1_MinimalDisruption ==
    [][ ( /\ op'.name = "Remove"
          /\ op'.ok
          /\ Cardinality(members) = 3
          /\ \A m1, m2 \in members :
                 membersReplicas[m1] = membersReplicas[m2] )
        => \A k \in Names :
               Get(Self, k).ret # <<op'.elt>>
                   => Get(SelfNext, k) = Get(Self, k) ]_vars

\* C2: on a ring with at least one position, Get returns the owner of the
\* least stored position greater than the hash of the key, and the owner of
\* the least stored position when none is greater.
C2_GetSuccessor ==
    (op.name = "Get" /\ DOMAIN circle # {})
        => /\ op.err = "nil"
           /\ op.ret = <<circle[Successor(hashKey(Self, op.elt))]>>

\* A Get whose key hashes exactly onto the greatest stored position of a
\* ring with several positions: it is served by wrapping to the least one.
C2_Witness ==
    /\ op.name = "Get"
    /\ Cardinality(DOMAIN circle) >= 2
    /\ hashKey(Self, op.elt) \in DOMAIN circle
    /\ \A p \in DOMAIN circle : p <= hashKey(Self, op.elt)
    /\ op.ret = <<circle[Least(DOMAIN circle)]>>

\* C3: a lookup that runs while other goroutines mutate the ring sees the
\* ring as it was when no mutation was in progress: while a reader is
\* inside Get, GetTwo or GetN no writer holds the lock, the object is the
\* one the last completed mutation left (its sorted index holds the keys of
\* the position map, its count is the number of members), and the result
\* is the result of the lookup on that object.
C3_LookupSeesCommitted ==
    \A t \in Readers :
        thread[t].pc \in {"read", "done"}
            => /\ t \in rwReaders
               /\ rwWriter = "none"
               /\ Self = committed
               /\ Range(sortedHashes) = DOMAIN circle
               /\ count = Cardinality(members)
               /\ DOMAIN membersReplicas = members
               /\ (thread[t].pc = "done" /\ thread[t].call.name \in Lookups)
                      => thread[t].res = Lookup(committed, thread[t].call)

\* Two readers inside lookups at once, one with its result, on a ring that
\* has been mutated, while the writer waits for the lock.
C3_Witness ==
    /\ thread["r1"].pc = "done"
    /\ thread["r2"].pc = "read"
    /\ thread["r1"].res.err = "nil"
    /\ Cardinality(members) = 2
    /\ rwWriter = "none"

\* C4: on a non-empty ring, GetN(key, n) with n >= 1 returns
\* min(n, number of members) distinct members: the Get result first, then
\* the others in the order the walk meets them.
C4_GetNExact ==
    (op.name = "GetN" /\ op.n >= 1 /\ DOMAIN circle # {})
        => /\ ~op.hung
           /\ Len(op.ret) = Smaller(op.n, Cardinality(members))
           /\ op.ret = SubSeq(OwnersFrom(op.elt), 1, Len(op.ret))

\* C5: on a non-empty ring, GetTwo returns the Get result and, with two or
\* more members, the next distinct owner met by the walk; with one member
\* the second result is empty.
C5_GetTwoDistinct ==
    (op.name = "GetTwo" /\ DOMAIN circle # {})
        => /\ ~op.hung
           /\ <<op.ret[1]>> = Get(Self, op.elt).ret
           /\ Cardinality(members) = 1 => op.ret[2] = <<>>
           /\ Cardinality(members) >= 2 =>
                  /\ op.ret[2] # <<>>
                  /\ op.ret[2] # op.ret[1]
                  /\ Len(OwnersFrom(op.elt)) >= 2
                  /\ op.ret[2] = OwnersFrom(op.elt)[2]

\* C6: every GetTwo and GetN returns, after at most one traversal of the
\* sorted positions.
C6_WalkTerminates ==
    (op.name \in {"GetTwo", "GetN"})
        => /\ ~op.hung
           /\ op.iters <= Len(sortedHashes)

\* C7: with zero positions every lookup returns the empty-circle error and
\* empty results, and a ring without members has zero positions.
C7_EmptyCircle ==
    /\ (op.name \in Lookups /\ DOMAIN circle = {})
           => /\ op.err = ErrEmptyCircle
              /\ ~op.hung
              /\ \A x \in DOMAIN op.ret : op.ret[x] = <<>>
              /\ op.name = "GetN" => op.ret = <<>>
    /\ (op.name \in Lookups /\ DOMAIN circle # {}) => op.err = "nil"
    /\ members = {} => DOMAIN circle = {}
    /\ (DOMAIN circle = {}) = (sortedHashes = <<>>)

\* A lookup on a ring that had members (its index has capacity) and has
\* none left.
C7_Witness ==
    /\ op.name \in Lookups
    /\ members = {}
    /\ sortedCap > 0
    /\ op.err = ErrEmptyCircle

\* C8: after Set(names) the members are exactly the names; a member that
\* stays keeps its replica count and its positions; a new member has the
\* default replica count; no position is owned by a removed member.
C8_SetExact ==
    [][ op'.name = "Set"
        => LET names == Range(op'.elts)
           IN  /\ members' = names
               /\ \A m \in members \cap names :
                      /\ membersReplicas'[m] = membersReplicas[m]
                      /\ PositionsOf(circle', m) = PositionsOf(circle, m)
               /\ \A m \in names \ members :
                      membersReplicas'[m] = defaultNumberOfReplicas
               /\ \A p \in DOMAIN circle' : circle'[p] \in names ]_vars

\* The first entry of elts that names m.
FirstEntry(elts, m) ==
    elts[Least({ x \in DOMAIN elts : elts[x].Elt = m })]

\* C9: after SetWithReplicas(entries) the members are exactly the names of
\* the entries; a new member has the replica count of its (first) entry, or
\* the default when that is zero; a member that stays keeps its replica
\* count; no position is owned by a removed member.
C9_SetWithReplicasExact ==
    [][ op'.name = "SetWithReplicas"
        => LET names == { op'.elts[x].Elt : x \in DOMAIN op'.elts }
           IN  /\ members' = names
               /\ DOMAIN membersReplicas' = names
               /\ \A m \in names \ members :
                      LET r == FirstEntry(op'.elts, m).NumberOfReplicas
                      IN  membersReplicas'[m] =
                              IF r = 0 THEN defaultNumberOfReplicas ELSE r
               /\ \A m \in members \cap names :
                      membersReplicas'[m] = membersReplicas[m]
               /\ \A p \in DOMAIN circle' : circle'[p] \in names ]_vars

\* A SetWithReplicas that kept a member whose entry gives another replica
\* count, added one with an explicit count and one with the default.
C9_Witness ==
    /\ op.name = "SetWithReplicas"
    /\ \E x \in DOMAIN op.elts :
           /\ op.elts[x].NumberOfReplicas # 0
           /\ membersReplicas[op.elts[x].Elt] # op.elts[x].NumberOfReplicas
    /\ \E x \in DOMAIN op.elts :
           /\ op.elts[x].NumberOfReplicas = 0
           /\ membersReplicas[op.elts[x].Elt] = defaultNumberOfReplicas
    /\ DOMAIN circle # {}

\* C10: Remove returns true exactly for a member; a false return changes
\* nothing; after a true return the element is no member, has no replica
\* count and owns no position.
C10_RemoveResult ==
    [][ op'.name = "Remove"
        => /\ op'.ok = (op'.elt \in members)
           /\ ~op'.ok => UNCHANGED ring
           /\ op'.ok =>
                  /\ op'.elt \notin members'
                  /\ op'.elt \notin DOMAIN membersReplicas'
                  /\ PositionsOf(circle', op'.elt) = {}
                  /\ count' = count - 1 ]_vars

\* A Remove that returned true on a ring where other members remain.
C10_Witness ==
    /\ op.name = "Remove"
    /\ op.ok
    /\ members # {}
    /\ DOMAIN circle # {}

\* C11: Add(name, r) on a ring that contains name changes nothing, whatever
\* r is: the positions, the sorted index and its capacity, the members, the
\* replica counts and the count are the same before and after.
C11_AddExistingNoOp ==
    [][ (op'.name = "Add" /\ op'.elt \in members) => UNCHANGED ring ]_vars

\* An Add of a member with a replica count other than the stored one, and
\* the stored one still there.
C11_Witness ==
    /\ op.name = "Add"
    /\ op.elt \in members
    /\ Len(op.elts) > 0
    /\ op.elts[1] # membersReplicas[op.elt]
    /\ Cardinality(PositionsOf(circle, op.elt)) = membersReplicas[op.elt]
    /\ membersReplicas[op.elt] > 0

\* The Config the object was built with.
ConfigOf(c) ==
    [DefaultNumberOfReplicas |-> c.defaultNumberOfReplicas,
     UseFnv |-> c.useFnv, CustomHasher |-> c.customHasher]

RECURSIVE AddAll(_, _, _)
\* The object after Add(m, replicas[m]) for the members m of order, in order.
AddAll(c, order, replicas) ==
    IF order = <<>> THEN c
    ELSE AddAll(Add(c, Head(order), <<replicas[Head(order)]>>), Tail(order),
                replicas)

\* C12: a ring returns from Get, for every key, what any ring returns that
\* was built with the same configuration and holds the same members with
\* the same replica counts: here the rings built from New by adding the
\* members in each possible order.
C12_Determinism ==
    \A order \in Orders(members) :
        \A k \in Names :
            Get(Self, k) =
                Get(AddAll(New(ConfigOf(Self)), order, membersReplicas), k)

\* C13: a GetN(key, n) that returns from a ring with positions, for any
\* n >= 0, returns at most n members.
C13_GetNAtMost ==
    (op.name = "GetN" /\ DOMAIN circle # {} /\ ~op.hung)
        => Len(op.ret) <= op.n

\* C14: among concurrent callers at most one mutation is inside its
\* critical section, and no lookup is inside while one is; a caller holds
\* the write lock exactly while it is inside a mutation and the read lock
\* exactly while it is inside a lookup, so every call that returns has
\* released the lock it took.
C14_LockDiscipline ==
    /\ Cardinality({ t \in Writers : thread[t].pc = "write" }) <= 1
    /\ (\E t \in Writers : thread[t].pc = "write")
           => \A r \in Readers : thread[r].pc = "idle"
    /\ \A t \in Writers : (rwWriter = t) = (thread[t].pc = "write")
    /\ \A r \in Readers : (r \in rwReaders) = (thread[r].pc \in {"read", "done"})
    /\ rwWriter \in Writers \cup {"none"}
    /\ rwReaders \subseteq Readers

\* Two lookups inside at the same time, Members among them, on a ring that
\* mutations have filled and left.
C14_Witness ==
    /\ rwReaders = Readers
    /\ rwWriter = "none"
    /\ thread["r1"].call.name = "Members"
    /\ thread["r2"].call.name = "GetN"
    /\ Cardinality(members) = 2

\* C15: after every completed call sortedHashes is strictly ascending and
\* holds exactly the keys of circle, each once.
C15_SortedIndex ==
    /\ \A i, j \in DOMAIN sortedHashes :
           i < j => sortedHashes[i] < sortedHashes[j]
    /\ Range(sortedHashes) = DOMAIN circle
    /\ Len(sortedHashes) = Cardinality(DOMAIN circle)

\* A Remove whose rebuild reused the backing storage of the previous index:
\* one or two positions are left in storage for four.
C15_Witness ==
    /\ op.name = "Remove"
    /\ op.ok
    /\ Len(sortedHashes) \in {1, 2}
    /\ sortedCap >= 4

\* The replica keys a member of the ring can have: replica indices below
\* the largest replica count.
ReplicaKeys == { eltKey(m, i) : m \in Elts, i \in 0..(MaxReplicas - 1) }

\* No two replica keys hash to the same position under the hasher of the
\* ring.
NoCollisions ==
    \A k1, k2 \in ReplicaKeys :
        k1 # k2 => hashKey(Self, k1) # hashKey(Self, k2)

\* C16: members and membersReplicas have the same keys; a member owns as
\* many positions as its replica count says when no replica keys collide,
\* and never more.
C16_ReplicaCount ==
    /\ DOMAIN membersReplicas = members
    /\ \A m \in members :
           Cardinality(PositionsOf(circle, m)) <= membersReplicas[m]
    /\ NoCollisions =>
           \A m \in members :
               Cardinality(PositionsOf(circle, m)) = membersReplicas[m]

\* C17: after every completed call count is the number of members, and it
\* is never negative.
C17_CountIsMembers ==
    /\ count = Cardinality(members)
    /\ count >= 0

\* A Set of a list that names one new member twice: it counts once.
C17_Witness ==
    /\ op.name = "Set"
    /\ Len(op.elts) = 2
    /\ op.elts[1] = op.elts[2]
    /\ members = {op.elts[1]}
    /\ count = 1

\* C18: Remove(x) leaves every position owned by another member in place
\* with its owner, and leaves the other members and their replica counts
\* as they were.
C18_RemoveFrame ==
    [][ op'.name = "Remove"
        => /\ \A p \in DOMAIN circle :
                  circle[p] # op'.elt
                      => (p \in DOMAIN circle' /\ circle'[p] = circle[p])
           /\ members \ {op'.elt} \subseteq members'
           /\ \A m \in members \ {op'.elt} :
                  /\ m \in DOMAIN membersReplicas'
                  /\ membersReplicas'[m] = membersReplicas[m] ]_vars

\* C19: the ring has no positions exactly when it has no members: Get
\* returns the empty-circle error only on a ring without members, and
\* every member owns a position.
C19_PositionsIffMembers ==
    /\ (DOMAIN circle = {}) = (members = {})
    /\ (op.name = "Get" /\ op.err = ErrEmptyCircle) => members = {}
    /\ \A m \in members : PositionsOf(circle, m) # {}

\* C20: every position is owned by a member, and a lookup that returns
\* without error returns members only (and the empty second result of
\* GetTwo on a ring of one member).
C20_OwnersAreMembers ==
    /\ \A p \in DOMAIN circle : circle[p] \in members
    /\ (op.name \in Lookups /\ op.err = "nil")
           => \A x \in DOMAIN op.ret :
                  \/ op.ret[x] \in members
                  \/ /\ op.name = "GetTwo"
                     /\ x = 2
                     /\ count = 1
                     /\ op.ret[x] = <<>>

\* A GetN that returns members from a ring that positions have been removed
\* from: at most two are left in an index with storage for four.
C20_Witness ==
    /\ op.name = "GetN"
    /\ op.err = "nil"
    /\ Len(op.ret) >= 1
    /\ Len(sortedHashes) <= 2
    /\ sortedCap >= 4
====
